---- MODULE Spec2Model ----
(***************************************************************************)
(* A model of the ore-pool server's request handlers                       *)
(* (server/src/contributor.rs) together with the Aggregator they share.    *)
(*                                                                         *)
(* The handlers challenge(), contribute() and confirm_transaction() are    *)
(* translated from contributor.rs.  The Aggregator's own operations        *)
(* (nonce_index, the consumer of the contribution channel, the challenge   *)
(* rotation) live in server/src/aggregator.rs, which is not part of the    *)
(* sources at hand; they are modelled from sections 4.1 and 4.2 of the     *)
(* specification and are marked as such where they are defined.            *)
(***************************************************************************)
EXTENDS Integers, Sequences, FiniteSets, TLC

(***************************************************************************)
(* Bounds of the model.                                                    *)
(***************************************************************************)
\* Rounds are numbered 1..MaxRound; rotation stops at MaxRound.
MaxRound == 2
\* Contributions in flight on the (unbounded) channel.
MaxChan == 1
\* Contributions the Aggregator records in one round.
MaxRecorded == 1
\* Size of the nonce search space that nonce_index partitions.
SpaceSize == 8
\* Cap on the RPC checks the model lets confirm_transaction perform.
MaxChecks == 7
\* The largest balance credited to the member.
MaxBalance == 3

(***************************************************************************)
(* Unsigned 64-bit integers, as 8 little-endian bytes.  The score is a     *)
(* u64 and 2^63 does not fit the model checker's integers, so the          *)
(* arithmetic is done on the bytes.                                        *)
(***************************************************************************)
ByteBase == 256
U64Bytes == 8

\* The u64 with value n, for 0 <= n < 65536.
U64Of(n) == <<n % ByteBase, (n \div ByteBase) % ByteBase, 0, 0, 0, 0, 0, 0>>

U64Zero == U64Of(0)

\* The sum of the byte products a[i] * b[j] that land on byte k of a * b.
RECURSIVE ColumnSum(_, _, _, _)
ColumnSum(a, b, k, i) ==
    IF i > U64Bytes THEN 0
    ELSE (IF k + 1 - i \in 1..U64Bytes THEN a[i] * b[k + 1 - i] ELSE 0)
         + ColumnSum(a, b, k, i + 1)

\* The carry into byte k of a product whose column sums are cols.
RECURSIVE CarryInto(_, _)
CarryInto(cols, k) ==
    IF k = 1 THEN 0
    ELSE (cols[k - 1] + CarryInto(cols, k - 1)) \div ByteBase

\* Byte k of the product.
ProductByte(cols, k) == (cols[k] + CarryInto(cols, k)) % ByteBase

\* a * b on u64, by schoolbook multiplication: the wrapped product (its
\* low 8 bytes) and whether the product overflowed (a byte above them is
\* not zero).
MulU64(a, b) ==
    CHOOSE r \in
        { [value |-> [k \in 1..U64Bytes |-> ProductByte(cols, k)],
           overflow |-> \E k \in (U64Bytes + 1)..(2 * U64Bytes) :
                           ProductByte(cols, k) # 0] :
          cols \in { [k \in 1..(2 * U64Bytes) |-> ColumnSum(x, y, k, 1)] :
                     x \in {a}, y \in {b} } } : TRUE

\* The loop of u64::pow (exponentiation by squaring), for exp >= 1: an odd
\* exponent multiplies the accumulator by the base, the last bit returns
\* it, and the base is squared for the next bit.
RECURSIVE PowLoop(_, _, _, _)
PowLoop(base, acc, exp, overflow) ==
    CHOOSE r \in
        { IF exp = 1
          THEN [value |-> m.value, overflow |-> overflow \/ m.overflow]
          ELSE PowLoop(sq.value, m.value, exp \div 2,
                       overflow \/ m.overflow \/ sq.overflow) :
          m \in { IF exp % 2 = 1 THEN MulU64(acc, base)
                  ELSE [value |-> acc, overflow |-> FALSE] },
          sq \in { IF exp = 1 THEN [value |-> base, overflow |-> FALSE]
                   ELSE MulU64(base, base) } } : TRUE

\* base.pow(exp) on u64: value is the result with wrapping multiplication
\* (a build without overflow checks); overflow says that a multiplication
\* overflowed, where a build with overflow checks panics.
PowU64(base, exp) ==
    IF exp = 0 THEN [value |-> U64Of(1), overflow |-> FALSE]
    ELSE PowLoop(base, U64Of(1), exp, FALSE)

\* a < b on u64, comparing from the most significant byte down.
RECURSIVE LtFrom(_, _, _)
LtFrom(a, b, i) ==
    IF i = 0 THEN FALSE
    ELSE IF a[i] # b[i] THEN a[i] < b[i]
    ELSE LtFrom(a, b, i - 1)

LtU64(a, b) == \E x \in {a} : \E y \in {b} : LtFrom(x, y, U64Bytes)

\* a + b on u64, wrapping.
RECURSIVE AddFrom(_, _, _, _)
AddFrom(a, b, i, carry) ==
    IF i > U64Bytes THEN <<>>
    ELSE LET t == a[i] + b[i] + carry
         IN <<t % ByteBase>> \o AddFrom(a, b, i + 1, t \div ByteBase)

AddU64(a, b) ==
    CHOOSE r \in { AddFrom(x, y, 1, 0) : x \in {a}, y \in {b} } : TRUE

\* The cast `x as u32` of a u64 x, for the values x < 2^31 the model holds.
AsU32(x) == (x % 65536) + 65536 * ((x \div 65536) % 65536)

(***************************************************************************)
(* Inputs.                                                                 *)
(***************************************************************************)
\* Pool members known to the Aggregator.
Members == {"A", "B", "C"}
\* The authority strings a GET /challenge/{authority} request may carry:
\* the members, a well-formed key of no member, and a malformed key.
AuthorityStrings == Members \cup {"D", "not-a-pubkey"}
\* The result of Pubkey::from_str.
PubkeyFromStr(s) ==
    IF s = "not-a-pubkey" THEN [ok |-> FALSE] ELSE [ok |-> TRUE, key |-> s]

Handlers == {"h1", "h2"}
NoOwner == "nobody"
NoValue == [none |-> TRUE]

\* A solution, abstracted to what contribute() reads of it: the difficulty
\* of its hash (the leading zero bits of a 32-byte hash, 0..256) and the
\* challenge its digest is valid for (0: none).
Solutions(difficulties) ==
    [difficulty : difficulties, validFor : 0..MaxRound]

\* A ContributePayload: the signature is abstracted to the key that made it
\* and the bytes it was made over.
Payloads(authorities, signers, difficulties) ==
    { [authority |-> a, solution |-> s,
       signature |-> [signer |-> k, message |-> s]] :
        a \in authorities, k \in signers, s \in Solutions(difficulties) }

\* The payloads of the concurrent specification and those of the
\* validation specification, which spans the difficulty range.
ConcurrentPayloads == Payloads({"A"}, {"A", "B"}, {8, 12})
ValidationPayloads ==
    Payloads({"A", "B"}, {"A", "B"}, {0, 8, 9, 10, 11, 12, 63, 64, 65, 256})

\* What a build does when 2u64.pow overflows: panic (overflow checks on) or
\* wrap (overflow checks off).
OverflowBehaviours == {"panic", "wrap"}

\* solution.to_hash().difficulty()
Difficulty(solution) == solution.difficulty
\* payload.signature.verify(authority, solution bytes)
Verify(signature, authority, message) ==
    signature.signer = authority /\ signature.message = message
\* drillx::is_valid_digest(challenge, n, d)
IsValidDigest(challenge, solution) == solution.validFor = challenge

(***************************************************************************)
(* State.                                                                  *)
(***************************************************************************)
VARIABLES
    agg,        \* the Aggregator behind the mutex
    lockOwner,  \* the handler holding the Aggregator mutex, or NoOwner
    chan,       \* the contribution channel (tx -> rx), oldest first
    pc,         \* each request handler's position
    req,        \* each handler's request
    local,      \* each handler's local variables
    resp,       \* each handler's response, once built
    sent,       \* history: the contributions the handler's request has sent
    before,     \* history: agg and chan when the handler took the mutex
    rxOpen,     \* whether the receiving side of the channel is open
    ctPc,       \* confirm_transaction: position
    retries,    \* confirm_transaction: the retries counter
    answers,    \* history: the RPC answers confirm_transaction has seen
    sleeps,     \* history: the backoff sleeps confirm_transaction has made
    scoreIn,    \* score computation: the difficulty
    scoreOut,   \* score computation: the outcome, once computed
    rdPc,       \* register_return_data: position
    rdIn,       \* register_return_data: what get_transaction comes back with
    rdBytes,    \* register_return_data: the decoded return data
    rdOut,      \* register_return_data: the result, once returned
    member_data, \* on chain: the data of the Member account
    tokens,     \* on chain: the tokens claimed to the beneficiary
    credited,   \* history: the balance credited to the member
    clPc,       \* process_claim: position
    clIx,       \* process_claim: the instruction being processed
    clPre,      \* history: the accounts when the instruction began
    clWork,     \* process_claim: the accounts as the instruction sees them
    clResult,   \* process_claim: the ProgramResult, once returned
    clInvoked,  \* history: whether the instruction invoked the token claim
    pool_data,  \* on chain: the pool account
    proof_data, \* on chain: the pool's proof account
    inPc,       \* process_initialize: position
    inIx,       \* process_initialize: the instruction being processed
    inPre,      \* history: the accounts when the instruction began
    inWork,     \* process_initialize: the accounts as the instruction sees them
    inResult,   \* process_initialize: the ProgramResult, once returned
    inits,      \* history: the initialize instructions that succeeded
    rgPc,       \* register_new_member: position
    rgIn,       \* register_new_member: the payload and what the calls come to
    rgOut,      \* register_new_member: the result, once returned
    rgTrace,    \* history: what register_new_member has completed, in order
    store       \* the member records of the MemberStore

serverVars == <<agg, lockOwner, chan, pc, req, local, resp, sent, before, rxOpen>>
confirmVars == <<ctPc, retries, answers, sleeps>>
scoreVars == <<scoreIn, scoreOut>>
returnDataVars == <<rdPc, rdIn, rdBytes, rdOut>>
claimVars == <<member_data, tokens, credited, clPc, clIx, clPre, clWork,
               clResult, clInvoked>>
initializeVars == <<pool_data, proof_data, inPc, inIx, inPre, inWork, inResult,
                    inits>>
registerVars == <<rgPc, rgIn, rgOut, rgTrace, store>>
restVars == <<returnDataVars, claimVars, initializeVars, registerVars>>
vars == <<serverVars, confirmVars, scoreVars, restVars>>

(***************************************************************************)
(* The Aggregator.  contribute() reads challenge.min_difficulty and        *)
(* challenge.challenge; the rest of the record follows section 3 of the    *)
(* specification (RoundState).                                             *)
(***************************************************************************)
\* The challenge of round r: its target is named by the round, rounds
\* having distinct targets.
ChallengeOf(r) == [challenge |-> r, min_difficulty |-> 10]

NewRound(r) ==
    [challenge |-> ChallengeOf(r),
     round_id |-> r,
     alloc |-> [m \in Members |-> NoValue],
     cursor |-> 0,
     contributions |-> <<>>,
     total_score |-> U64Zero,
     best |-> NoValue]

InitServer ==
    /\ agg = NewRound(1)
    /\ lockOwner = NoOwner
    /\ chan = <<>>
    /\ rxOpen = TRUE
    /\ pc = [h \in Handlers |-> "idle"]
    /\ req = [h \in Handlers |-> NoValue]
    /\ local = [h \in Handlers |-> NoValue]
    /\ resp = [h \in Handlers |-> NoValue]
    /\ sent = [h \in Handlers |-> <<>>]
    /\ before = [h \in Handlers |-> NoValue]

\* The handler's response is built; the mutex guard is dropped on return.
Respond(h, status, err) ==
    /\ resp' = [resp EXCEPT ![h] = [status |-> status, err |-> err]]
    /\ pc' = [pc EXCEPT ![h] = "responded"]

\* Where a handler is in the HTTP transport: a worker that is not inside
\* challenge() or contribute() is reading its next request from the
\* network or writing its last response to it.
IoPositions == {"idle"}

\* Where contribute() is between taking the mutex and its answer.
ContributePositions ==
    {"verify_sig", "check_difficulty", "verify_digest", "score", "send"}

(***************************************************************************)
(* contribute()                                                            *)
(***************************************************************************)
\* The variant of ContributeLock that goes on without taking the mutex.
ContributeNoLock(h, p) ==
    /\ pc[h] = "idle"
    /\ Len(chan) < MaxChan
    /\ req' = [req EXCEPT ![h] = [kind |-> "contribute", payload |-> p]]
    /\ local' = [local EXCEPT ![h] = [difficulty |-> Difficulty(p.solution)]]
    /\ pc' = [pc EXCEPT ![h] = "verify_sig"]
    /\ sent' = [sent EXCEPT ![h] = <<>>]
    /\ before' = [before EXCEPT ![h] = [agg |-> agg, chan |-> chan]]
    /\ UNCHANGED <<agg, chan, rxOpen, resp, lockOwner>>

\* A request arrives, takes the Aggregator mutex and decodes the
\* difficulty of its solution.  A handler waiting for the mutex has done
\* nothing yet, so arrival and acquisition are one step.
ContributeLock(h, p) ==
    /\ pc[h] = "idle"
    /\ lockOwner = NoOwner
    /\ Len(chan) < MaxChan
    /\ lockOwner' = h
    /\ req' = [req EXCEPT ![h] = [kind |-> "contribute", payload |-> p]]
    /\ local' = [local EXCEPT ![h] = [difficulty |-> Difficulty(p.solution)]]
    /\ pc' = [pc EXCEPT ![h] = "verify_sig"]
    /\ sent' = [sent EXCEPT ![h] = <<>>]
    /\ before' = [before EXCEPT ![h] = [agg |-> agg, chan |-> chan]]
    /\ UNCHANGED <<agg, chan, rxOpen, resp>>

\* The variant of ContributeVerifySig that looks at the difficulty first.
ContributeVerifySigLate(h) ==
    /\ pc[h] = "verify_sig"
    /\ LET p == req[h].payload
       IN IF local[h].difficulty < AsU32(agg.challenge.min_difficulty)
          THEN Respond(h, 400, "BelowMinDifficulty")
          ELSE IF ~Verify(p.signature, p.authority, p.solution)
          THEN Respond(h, 401, "Unauthorized")
          ELSE /\ pc' = [pc EXCEPT ![h] = "check_difficulty"]
               /\ UNCHANGED resp
    /\ UNCHANGED <<agg, lockOwner, chan, rxOpen, req, local, sent, before>>

\* authenticate the sender signature
ContributeVerifySig(h) ==
    /\ pc[h] = "verify_sig"
    /\ LET p == req[h].payload
       IN IF ~Verify(p.signature, p.authority, p.solution)
          THEN Respond(h, 401, "Unauthorized")
          ELSE /\ pc' = [pc EXCEPT ![h] = "check_difficulty"]
               /\ UNCHANGED resp
    /\ UNCHANGED <<agg, lockOwner, chan, rxOpen, req, local, sent, before>>

\* error if solution below min difficulty
ContributeCheckDifficulty(h) ==
    /\ pc[h] = "check_difficulty"
    /\ IF local[h].difficulty < AsU32(agg.challenge.min_difficulty)
       THEN Respond(h, 400, "BelowMinDifficulty")
       ELSE /\ pc' = [pc EXCEPT ![h] = "verify_digest"]
            /\ UNCHANGED resp
    /\ UNCHANGED <<agg, lockOwner, chan, rxOpen, req, local, sent, before>>

\* The variant of ContributeVerifyDigest that hands the contribution to
\* the channel before it looks at the digest.
ContributeVerifyDigestAfterSend(h) ==
    /\ pc[h] = "verify_digest"
    /\ LET p == req[h].payload
           c == [member |-> p.authority, score |-> U64Zero, solution |-> p.solution]
       IN /\ chan' = Append(chan, c)
          /\ sent' = [sent EXCEPT ![h] = Append(@, c)]
          /\ IF ~IsValidDigest(agg.challenge.challenge, p.solution)
             THEN Respond(h, 400, "InvalidDigest")
             ELSE /\ pc' = [pc EXCEPT ![h] = "score"]
                  /\ UNCHANGED resp
    /\ UNCHANGED <<agg, lockOwner, rxOpen, req, local, before>>

\* error if digest is invalid
ContributeVerifyDigest(h) ==
    /\ pc[h] = "verify_digest"
    /\ IF ~IsValidDigest(agg.challenge.challenge, req[h].payload.solution)
       THEN Respond(h, 400, "InvalidDigest")
       ELSE /\ pc' = [pc EXCEPT ![h] = "score"]
            /\ UNCHANGED resp
    /\ UNCHANGED <<agg, lockOwner, chan, rxOpen, req, local, sent, before>>

\* calculate score: 2u64.pow(difficulty).  When the power overflows, a
\* build with overflow checks panics, which aborts the request with no
\* response of the handler's; a build without them goes on with the
\* wrapped value.
ContributeScore(h) ==
    /\ pc[h] = "score"
    /\ \E behaviour \in OverflowBehaviours :
         LET r == PowU64(U64Of(2), local[h].difficulty)
         IN IF r.overflow /\ behaviour = "panic"
            THEN /\ Respond(h, 0, "Panic")
                 /\ UNCHANGED local
            ELSE /\ local' = [local EXCEPT ![h] =
                                [difficulty |-> @.difficulty, score |-> r.value]]
                 /\ pc' = [pc EXCEPT ![h] = "send"]
                 /\ UNCHANGED resp
    /\ UNCHANGED <<agg, lockOwner, chan, rxOpen, req, sent, before>>

\* The Contribution contribute() builds from its payload and score.
ContributionOf(h) ==
    [member |-> req[h].payload.authority, score |-> local[h].score,
     solution |-> req[h].payload.solution]

\* The send is attempted: local keeps the number of attempts and whether
\* the last one succeeded.
Attempted(h, ok) ==
    local' = [local EXCEPT ![h] =
                [difficulty |-> @.difficulty, score |-> @.score,
                 sends |-> 1, send_ok |-> ok]]

\* The variant of ContributeSend that answers 500 when the send fails.
ContributeSendFailsRequest(h) ==
    /\ pc[h] = "send"
    /\ IF rxOpen
       THEN /\ chan' = Append(chan, ContributionOf(h))
            /\ sent' = [sent EXCEPT ![h] = Append(@, ContributionOf(h))]
            /\ Respond(h, 200, "")
       ELSE /\ UNCHANGED <<chan, sent>>
            /\ Respond(h, 500, "SendError")
    /\ Attempted(h, rxOpen)
    /\ UNCHANGED <<agg, lockOwner, rxOpen, req, before>>

\* update the aggregator: one send on the channel, whose failure (the
\* receiving side is closed) is only logged; the answer is 200 either way.
ContributeSend(h) ==
    /\ pc[h] = "send"
    /\ IF rxOpen
       THEN /\ chan' = Append(chan, ContributionOf(h))
            /\ sent' = [sent EXCEPT ![h] = Append(@, ContributionOf(h))]
       ELSE UNCHANGED <<chan, sent>>
    /\ Attempted(h, rxOpen)
    /\ Respond(h, 200, "")
    /\ UNCHANGED <<agg, lockOwner, rxOpen, req, before>>

\* The handler returns: its locals, the mutex guard among them, are dropped.
ContributeReturn(h) ==
    /\ pc[h] = "responded"
    /\ req[h].kind = "contribute"
    /\ pc' = [pc EXCEPT ![h] = "idle"]
    /\ lockOwner' = IF lockOwner = h THEN NoOwner ELSE lockOwner
    /\ req' = [req EXCEPT ![h] = NoValue]
    /\ local' = [local EXCEPT ![h] = NoValue]
    /\ resp' = [resp EXCEPT ![h] = NoValue]
    /\ sent' = [sent EXCEPT ![h] = <<>>]
    /\ before' = [before EXCEPT ![h] = NoValue]
    /\ UNCHANGED <<agg, chan, rxOpen>>

(***************************************************************************)
(* Aggregator::nonce_index, modelled from the specification's              *)
(* AllocateRange (sections 4.1 and 4.2).  It is an async fn, so it is      *)
(* taken in two steps, the lookup and the assignment; challenge() holds    *)
(* the mutex across both.                                                  *)
(***************************************************************************)
\* The configured pool size: the number of windows the search space is
\* divided into.
ExpectedPoolSize == 2

WindowSize == SpaceSize \div ExpectedPoolSize

\* The offset, derived from round_id, at which an exhausted cursor wraps.
WrapOffset(round_id) == round_id % WindowSize

Overlap(r1, r2) == r1.start < r2.end /\ r2.start < r1.end

\* The ranges the allocation table holds.
Issued(alloc) == { alloc[m] : m \in { x \in Members : alloc[x] # NoValue } }

\* The window a new member gets with the cursor at cur: the next unused
\* window; with the cursor exhausted, the window at the wrap offset if it is
\* disjoint from every range issued, and SpaceExhausted otherwise.
NextWindow(a, member, cur) ==
    LET start == IF cur + WindowSize <= SpaceSize THEN cur
                 ELSE WrapOffset(a.round_id)
        range == [member_id |-> member, start |-> start,
                  end |-> start + WindowSize]
    IN IF cur + WindowSize > SpaceSize
          /\ \E r \in Issued(a.alloc) : Overlap(r, range)
       THEN [ok |-> FALSE, err |-> "SpaceExhausted"]
       ELSE [ok |-> TRUE, range |-> range]

\* nonce_index, first half: look the member up and read the cursor.
NonceLookup(h) ==
    /\ pc[h] = "nonce_lookup"
    /\ LET m == req[h].authority
       IN local' = [local EXCEPT ![h] =
                      [known |-> m \in Members,
                       found |-> IF m \in Members THEN agg.alloc[m] ELSE NoValue,
                       cursor |-> agg.cursor]]
    /\ pc' = [pc EXCEPT ![h] = "nonce_assign"]
    /\ UNCHANGED <<agg, lockOwner, chan, rxOpen, req, resp, sent, before>>

\* nonce_index, second half: an unregistered member is an error; a member
\* that holds a range for this round gets it again; a new member gets the
\* next window and the cursor advances.
NonceAssign(h) ==
    /\ pc[h] = "nonce_assign"
    /\ LET m == req[h].authority
           l == local[h]
           w == NextWindow(agg, m, l.cursor)
       IN IF ~l.known
          THEN /\ local' = [local EXCEPT ![h] =
                              [found |-> l.found, cursor |-> l.cursor,
                               result |-> [ok |-> FALSE, err |-> "Unregistered"]]]
               /\ UNCHANGED agg
          ELSE IF l.found # NoValue
          THEN /\ local' = [local EXCEPT ![h] =
                              [found |-> l.found, cursor |-> l.cursor,
                               result |-> [ok |-> TRUE, range |-> l.found]]]
               /\ UNCHANGED agg
          ELSE /\ local' = [local EXCEPT ![h] =
                              [found |-> l.found, cursor |-> l.cursor,
                               result |-> w]]
               /\ agg' = IF w.ok
                         THEN [agg EXCEPT !.alloc[m] = w.range,
                                          !.cursor = l.cursor + WindowSize]
                         ELSE agg
    /\ pc' = [pc EXCEPT ![h] = "challenge_match"]
    /\ UNCHANGED <<lockOwner, chan, rxOpen, req, resp, sent, before>>

(***************************************************************************)
(* challenge()                                                             *)
(***************************************************************************)
\* The authority string does not parse: the error is logged and the
\* request answered 400.  The handler touches nothing shared and never
\* takes the mutex, so the request is one step.
ChallengeBadRequest(h, s) ==
    /\ pc[h] = "idle"
    /\ ~PubkeyFromStr(s).ok
    /\ UNCHANGED serverVars

\* The variant of ChallengeLock that goes on without taking the mutex.
ChallengeNoLock(h, s) ==
    /\ pc[h] = "idle"
    /\ PubkeyFromStr(s).ok
    /\ req' = [req EXCEPT ![h] =
                 [kind |-> "challenge", authority |-> PubkeyFromStr(s).key]]
    /\ pc' = [pc EXCEPT ![h] = "nonce_lookup"]
    /\ UNCHANGED <<agg, lockOwner, chan, rxOpen, local, resp, sent, before>>

\* The authority string parses and the handler takes the mutex.
ChallengeLock(h, s) ==
    /\ pc[h] = "idle"
    /\ PubkeyFromStr(s).ok
    /\ lockOwner = NoOwner
    /\ lockOwner' = h
    /\ req' = [req EXCEPT ![h] =
                 [kind |-> "challenge", authority |-> PubkeyFromStr(s).key]]
    /\ pc' = [pc EXCEPT ![h] = "nonce_lookup"]
    /\ UNCHANGED <<agg, chan, rxOpen, local, resp, sent, before>>

\* match challenge: Ok is answered 200 with the range, Err 500.
ChallengeMatch(h) ==
    /\ pc[h] = "challenge_match"
    /\ LET r == local[h].result
       IN resp' = [resp EXCEPT ![h] =
                     IF r.ok THEN [status |-> 200, err |-> "", range |-> r.range]
                     ELSE [status |-> 500, err |-> r.err]]
    /\ pc' = [pc EXCEPT ![h] = "responded"]
    /\ UNCHANGED <<agg, lockOwner, chan, rxOpen, req, local, sent, before>>

\* The variant of ChallengeReturn that keeps the mutex guard alive while
\* the response is written.
ChallengeReturnKeepsGuard(h) ==
    /\ pc[h] = "responded"
    /\ req[h].kind = "challenge"
    /\ pc' = [pc EXCEPT ![h] = "idle"]
    /\ req' = [req EXCEPT ![h] = NoValue]
    /\ local' = [local EXCEPT ![h] = NoValue]
    /\ resp' = [resp EXCEPT ![h] = NoValue]
    /\ UNCHANGED <<agg, lockOwner, chan, rxOpen, sent, before>>

\* The handler returns: the mutex guard, if taken, is dropped.
ChallengeReturn(h) ==
    /\ pc[h] = "responded"
    /\ req[h].kind = "challenge"
    /\ pc' = [pc EXCEPT ![h] = "idle"]
    /\ lockOwner' = IF lockOwner = h THEN NoOwner ELSE lockOwner
    /\ req' = [req EXCEPT ![h] = NoValue]
    /\ local' = [local EXCEPT ![h] = NoValue]
    /\ resp' = [resp EXCEPT ![h] = NoValue]
    /\ UNCHANGED <<agg, chan, rxOpen, sent, before>>

(***************************************************************************)
(* The consumer of the channel and the rotation of the challenge, both     *)
(* modelled from section 4.1 of the specification.                         *)
(***************************************************************************)
\* RecordContribution: the consumer takes the oldest contribution off the
\* channel and, under the mutex, appends it to the round's contributions,
\* adds its score to the total and moves the best-score pointer when the
\* score exceeds the best.  A Contribution as contribute() builds it is
\* {member, score, solution}: it names no round, so it is recorded in the
\* live round.
RecordContribution ==
    /\ rxOpen
    /\ chan # <<>>
    /\ lockOwner = NoOwner
    /\ Len(agg.contributions) < MaxRecorded
    /\ LET c == Head(chan)
           rec == [member |-> c.member, round_id |-> agg.round_id,
                   solution |-> c.solution, score |-> c.score]
       IN agg' = [agg EXCEPT
                    !.contributions = Append(@, rec),
                    !.total_score = AddU64(@, c.score),
                    !.best = IF @ = NoValue \/ LtU64(@.score, c.score)
                             THEN rec ELSE @]
    /\ chan' = Tail(chan)
    /\ UNCHANGED <<lockOwner, rxOpen, pc, req, local, resp, sent, before>>

\* RotateChallenge: under the mutex, the challenge is replaced, round_id
\* incremented, and the allocation table, the contributions and the
\* best-score pointer reset.
RotateChallenge ==
    /\ lockOwner = NoOwner
    /\ agg.round_id < MaxRound
    /\ agg' = NewRound(agg.round_id + 1)
    /\ UNCHANGED <<lockOwner, chan, rxOpen, pc, req, local, resp, sent, before>>

\* The receiving side of the channel goes away (the consumer task ends):
\* what was in flight is dropped and every later send fails.
CloseReceiver ==
    /\ rxOpen
    /\ rxOpen' = FALSE
    /\ chan' = <<>>
    /\ UNCHANGED <<agg, lockOwner, pc, req, local, resp, sent, before>>

(***************************************************************************)
(* The other parts of the state, at rest.                                  *)
(***************************************************************************)
max_retries == 5

ConfirmAtRest ==
    /\ ctPc = "loop"
    /\ retries = 0
    /\ answers = <<>>
    /\ sleeps = 0

ScoreAtRest ==
    /\ scoreIn = 0
    /\ scoreOut = NoValue

\* register_return_data about to run on the response `inputs` holds.
ReturnDataReady(inputs) ==
    /\ rdPc = "get_transaction"
    /\ rdIn \in inputs
    /\ rdBytes = NoValue
    /\ rdOut = NoValue

\* The Member account of the pool's member, with balance b credited.
MemberAccount(b) ==
    [id |-> 1, pool |-> "pool", authority |-> "A", balance |-> b,
     total_balance |-> b]

\* No claim instruction is being processed; the member has been credited
\* one of `balances`.
ClaimReady(balances) ==
    /\ credited \in balances
    /\ member_data = MemberAccount(credited)
    /\ tokens = 0
    /\ clPc = "none"
    /\ clIx = NoValue
    /\ clPre = NoValue
    /\ clWork = NoValue
    /\ clResult = NoValue
    /\ clInvoked = FALSE

\* An account nobody has created yet: no data, owned by the system program.
Uninitialized == [initialized |-> FALSE, discriminator |-> "none"]

\* No initialize instruction has been processed.
InitializeReady ==
    /\ pool_data = Uninitialized
    /\ proof_data = Uninitialized
    /\ inPc = "none"
    /\ inIx = NoValue
    /\ inPre = NoValue
    /\ inWork = NoValue
    /\ inResult = NoValue
    /\ inits = 0

\* register_new_member about to run on one of `inputs`; no member has
\* been written.
RegisterReady(inputs) ==
    /\ rgPc = "blockhash"
    /\ rgIn \in inputs
    /\ rgOut = NoValue
    /\ rgTrace = <<>>
    /\ store = {}

RestAtRest ==
    /\ ReturnDataReady({NoValue})
    /\ ClaimReady({0})
    /\ InitializeReady
    /\ RegisterReady({NoValue})

(***************************************************************************)
(* The server: request handlers, consumer and rotation, interleaved.       *)
(***************************************************************************)
Init == InitServer /\ ConfirmAtRest /\ ScoreAtRest /\ RestAtRest

\* A step of the server leaves the rest of the state alone.
ServerStep == UNCHANGED <<confirmVars, scoreVars, restVars>>

Next ==
    \/ \E h \in Handlers : \E p \in ConcurrentPayloads :
            ContributeLock(h, p) /\ ServerStep
    \/ \E h \in Handlers : ContributeVerifySig(h) /\ ServerStep
    \/ \E h \in Handlers : ContributeCheckDifficulty(h) /\ ServerStep
    \/ \E h \in Handlers : ContributeVerifyDigest(h) /\ ServerStep
    \/ \E h \in Handlers : ContributeScore(h) /\ ServerStep
    \/ \E h \in Handlers : ContributeSend(h) /\ ServerStep
    \/ \E h \in Handlers : ContributeReturn(h) /\ ServerStep
    \/ \E h \in Handlers : \E s \in AuthorityStrings :
            ChallengeBadRequest(h, s) /\ ServerStep
    \/ \E h \in Handlers : \E s \in AuthorityStrings :
            ChallengeLock(h, s) /\ ServerStep
    \/ \E h \in Handlers : NonceLookup(h) /\ ServerStep
    \/ \E h \in Handlers : NonceAssign(h) /\ ServerStep
    \/ \E h \in Handlers : ChallengeMatch(h) /\ ServerStep
    \/ \E h \in Handlers : ChallengeReturn(h) /\ ServerStep
    \/ RecordContribution /\ ServerStep
    \/ RotateChallenge /\ ServerStep
    \/ CloseReceiver /\ ServerStep

Spec == Init /\ [][Next]_vars

(***************************************************************************)
(* contribute() alone: one handler serving one request after another       *)
(* against one challenge, over payloads that span the difficulty range.    *)
(***************************************************************************)
DrainChannel ==
    /\ chan # <<>>
    /\ chan' = Tail(chan)
    /\ UNCHANGED <<agg, lockOwner, rxOpen, pc, req, local, resp, sent, before>>

NextValidate ==
    \/ \E p \in ValidationPayloads : ContributeLock("h1", p) /\ ServerStep
    \/ ContributeVerifySig("h1") /\ ServerStep
    \/ ContributeCheckDifficulty("h1") /\ ServerStep
    \/ ContributeVerifyDigest("h1") /\ ServerStep
    \/ ContributeScore("h1") /\ ServerStep
    \/ ContributeSend("h1") /\ ServerStep
    \/ ContributeReturn("h1") /\ ServerStep
    \/ DrainChannel /\ ServerStep

SpecValidate == Init /\ [][NextValidate]_vars

(***************************************************************************)
(* The score computation of contribute(), over every difficulty the hash   *)
(* of a solution can have.                                                 *)
(***************************************************************************)
\* The leading zero bits of a 32-byte hash.
MaxDifficulty == 256

InitScore ==
    /\ InitServer
    /\ ConfirmAtRest
    /\ scoreIn \in 0..MaxDifficulty
    /\ scoreOut = NoValue
    /\ RestAtRest

\* let score = 2u64.pow(difficulty): the request is aborted by a panic, or
\* goes on with the value computed.
ComputeScore ==
    /\ scoreOut = NoValue
    /\ \E behaviour \in OverflowBehaviours :
         LET r == PowU64(U64Of(2), scoreIn)
         IN scoreOut' = IF r.overflow /\ behaviour = "panic"
                        THEN [panicked |-> TRUE]
                        ELSE [panicked |-> FALSE, score |-> r.value]
    /\ UNCHANGED <<scoreIn, serverVars, confirmVars, restVars>>

SpecScore == InitScore /\ [][ComputeScore]_vars

(***************************************************************************)
(* confirm_transaction()                                                   *)
(***************************************************************************)
\* What one confirm_transaction_with_commitment call comes back with: an
\* RPC error, or Ok with the confirmed flag.
RpcAnswers == {"rpc_error", "not_confirmed", "confirmed"}

\* The checks made so far and whether the last one reported confirmed.
Checks == Len(answers)
Confirmed == answers # <<>> /\ answers[Len(answers)] = "confirmed"

\* The variant of CtLoop whose loop condition is retries <= max_retries.
CtLoopInclusive ==
    /\ ctPc = "loop"
    /\ ctPc' = IF retries <= max_retries THEN "check" ELSE "after_loop"
    /\ UNCHANGED <<retries, answers, sleeps, serverVars, scoreVars, restVars>>

\* while retries < max_retries
CtLoop ==
    /\ ctPc = "loop"
    /\ ctPc' = IF retries < max_retries THEN "check" ELSE "after_loop"
    /\ UNCHANGED <<retries, answers, sleeps, serverVars, scoreVars, restVars>>

\* The variant of CtCheck that counts a retry only for an Ok answer.
CtCheckSkipsErrors ==
    /\ ctPc = "check"
    /\ Checks < MaxChecks
    /\ \E a \in RpcAnswers :
         /\ answers' = Append(answers, a)
         /\ IF a = "confirmed"
            THEN ctPc' = "after_loop" /\ UNCHANGED retries
            ELSE IF a = "rpc_error"
            THEN ctPc' = "sleep" /\ UNCHANGED retries
            ELSE ctPc' = "sleep" /\ retries' = retries + 1
    /\ UNCHANGED <<sleeps, serverVars, scoreVars, restVars>>

\* One confirmation check: confirmed breaks out of the loop; an RPC error
\* and an unconfirmed answer both count a retry.
CtCheck ==
    /\ ctPc = "check"
    /\ Checks < MaxChecks
    /\ \E a \in RpcAnswers :
         /\ answers' = Append(answers, a)
         /\ IF a = "confirmed"
            THEN ctPc' = "after_loop" /\ UNCHANGED retries
            ELSE ctPc' = "sleep" /\ retries' = retries + 1
    /\ UNCHANGED <<sleeps, serverVars, scoreVars, restVars>>

\* tokio::time::sleep(2 s), then back to the loop condition.
CtSleep ==
    /\ ctPc = "sleep"
    /\ sleeps' = sleeps + 1
    /\ ctPc' = "loop"
    /\ UNCHANGED <<retries, answers, serverVars, scoreVars, restVars>>

\* if retries == max_retries { return Err(..) } Ok(())
CtReturn ==
    /\ ctPc = "after_loop"
    /\ ctPc' = IF retries = max_retries THEN "err" ELSE "ok"
    /\ UNCHANGED <<retries, answers, sleeps, serverVars, scoreVars, restVars>>

NextConfirm ==
    \/ CtLoop
    \/ CtCheck
    \/ CtSleep
    \/ CtReturn

SpecConfirm == Init /\ [][NextConfirm]_vars

\* The runtime keeps polling the future: the RPC call comes back and the
\* timer fires.
FairSpecConfirm == Init /\ [][NextConfirm]_vars /\ WF_vars(NextConfirm)

(***************************************************************************)
(* register_return_data()                                                  *)
(***************************************************************************)
\* Base64 text, as the sequence of its characters: a character of the
\* standard alphabet is its 6-bit value 0..63, Base64Pad is '=' and
\* NotInAlphabet stands for any other character.
Base64Pad == 64
NotInAlphabet == 65

\* What the node does to the program's return data: standard base64 with
\* padding.
RECURSIVE Base64Encode(_)
Base64Encode(bytes) ==
    IF bytes = <<>> THEN <<>>
    ELSE IF Len(bytes) = 1
    THEN <<bytes[1] \div 4, (bytes[1] % 4) * 16, Base64Pad, Base64Pad>>
    ELSE IF Len(bytes) = 2
    THEN <<bytes[1] \div 4, (bytes[1] % 4) * 16 + bytes[2] \div 16,
           (bytes[2] % 16) * 4, Base64Pad>>
    ELSE <<bytes[1] \div 4, (bytes[1] % 4) * 16 + bytes[2] \div 16,
           (bytes[2] % 16) * 4 + bytes[3] \div 64, bytes[3] % 64>>
         \o Base64Encode(SubSeq(bytes, 4, Len(bytes)))

\* The '=' characters that end the text (at most two are padding).
PadCount(s) ==
    IF Len(s) >= 2 /\ s[Len(s)] = Base64Pad /\ s[Len(s) - 1] = Base64Pad
    THEN 2
    ELSE IF Len(s) >= 1 /\ s[Len(s)] = Base64Pad THEN 1
    ELSE 0

\* The bytes of whole groups of four characters.
RECURSIVE DecodeQuads(_)
DecodeQuads(q) ==
    IF q = <<>> THEN <<>>
    ELSE <<q[1] * 4 + q[2] \div 16,
           (q[2] % 16) * 16 + q[3] \div 4,
           (q[3] % 4) * 64 + q[4]>>
         \o DecodeQuads(SubSeq(q, 5, Len(q)))

\* BASE64_STANDARD.decode: a character outside the alphabet, a length that
\* is not a multiple of four (missing or misplaced padding) and non-zero
\* bits after the last byte are errors.
Base64Decode(s) ==
    LET body == SubSeq(s, 1, Len(s) - PadCount(s))
        full == (Len(body) \div 4) * 4
        last == SubSeq(body, full + 1, Len(body))
    IN IF \E i \in 1..Len(body) : body[i] >= Base64Pad
       THEN [ok |-> FALSE, err |-> "InvalidByte", bytes |-> <<>>]
       ELSE IF Len(s) % 4 # 0
       THEN [ok |-> FALSE, err |-> "InvalidPadding", bytes |-> <<>>]
       ELSE IF \/ Len(last) = 2 /\ last[2] % 16 # 0
               \/ Len(last) = 3 /\ last[3] % 4 # 0
       THEN [ok |-> FALSE, err |-> "InvalidLastSymbol", bytes |-> <<>>]
       ELSE [ok |-> TRUE, err |-> "",
             bytes |-> DecodeQuads(SubSeq(body, 1, full))
                       \o (IF Len(last) = 2
                           THEN <<last[1] * 4 + last[2] \div 16>>
                           ELSE IF Len(last) = 3
                           THEN <<last[1] * 4 + last[2] \div 16,
                                  (last[2] % 16) * 16 + last[3] \div 4>>
                           ELSE <<>>)]

\* u64::from_le_bytes: byte i weighs 256^(i-1).
RECURSIVE LeValueFrom(_, _)
LeValueFrom(b, i) ==
    IF i > U64Bytes THEN U64Zero
    ELSE AddU64(U64Of(b[i]),
                MulU64(U64Of(ByteBase), LeValueFrom(b, i + 1)).value)

FromLeBytes(b) == LeValueFrom(b, 1)

\* The return data a transaction can carry: byte strings shorter than,
\* as long as and longer than a member id.
ReturnDataLengths == {0, 7, 8, 9}
ReturnBytes == {7, 200}
RawReturnData == UNION { [1..n -> ReturnBytes] : n \in ReturnDataLengths }

TransactionResponse(rpc, meta, slot, data, wellFormed, raw) ==
    [rpc |-> rpc, meta |-> meta, slot |-> slot, data |-> data,
     wellFormed |-> wellFormed, raw |-> raw]

\* Base64 text that is not the encoding of anything: a foreign character,
\* the padding cut off, a bit set after the last byte.
Damaged(e) ==
    { [e EXCEPT ![1] = NotInAlphabet],
      SubSeq(e, 1, Len(e) - 1),
      [e EXCEPT ![Len(e) - 1] = @ + 1] }

\* What get_transaction comes back with: an RPC error, a transaction
\* without metadata, metadata without return data, or return data.
TransactionResponses ==
    { TransactionResponse("error", FALSE, FALSE, <<>>, FALSE, <<>>),
      TransactionResponse("ok", FALSE, FALSE, <<>>, FALSE, <<>>),
      TransactionResponse("ok", TRUE, FALSE, <<>>, FALSE, <<>>) }
    \cup { TransactionResponse("ok", TRUE, TRUE, Base64Encode(raw), TRUE, raw) :
           raw \in RawReturnData }
    \cup { TransactionResponse("ok", TRUE, TRUE, d, FALSE, <<>>) :
           d \in UNION { Damaged(Base64Encode(raw)) :
                         raw \in [1..U64Bytes -> ReturnBytes] } }

RdFail(err) ==
    /\ rdOut' = [ok |-> FALSE, err |-> err]
    /\ rdPc' = "returned"

\* rpc_client.get_transaction(..).await?
RdGetTransaction ==
    /\ rdPc = "get_transaction"
    /\ rdIn # NoValue
    /\ IF rdIn.rpc = "error"
       THEN RdFail("ClientError")
       ELSE rdPc' = "meta" /\ UNCHANGED rdOut
    /\ UNCHANGED <<rdIn, rdBytes>>

\* transaction.transaction.meta.ok_or(..)?
RdMeta ==
    /\ rdPc = "meta"
    /\ IF ~rdIn.meta
       THEN RdFail("missing return data (meta) from open instruction")
       ELSE rdPc' = "return_data" /\ UNCHANGED rdOut
    /\ UNCHANGED <<rdIn, rdBytes>>

\* return_data.ok_or(..)?
RdReturnData ==
    /\ rdPc = "return_data"
    /\ IF ~rdIn.slot
       THEN RdFail("missing return data (meta) from open instruction")
       ELSE rdPc' = "decode" /\ UNCHANGED rdOut
    /\ UNCHANGED <<rdIn, rdBytes>>

\* BASE64_STANDARD.decode(return_data)?
RdDecode ==
    /\ rdPc = "decode"
    /\ LET d == Base64Decode(rdIn.data)
       IN IF ~d.ok
          THEN RdFail("DecodeError") /\ UNCHANGED rdBytes
          ELSE rdBytes' = d.bytes /\ rdPc' = "try_into" /\ UNCHANGED rdOut
    /\ UNCHANGED rdIn

\* The variant of RdTryInto that takes the first 8 bytes of a longer slice.
RdTryIntoTruncating ==
    /\ rdPc = "try_into"
    /\ IF Len(rdBytes) < U64Bytes
       THEN RdFail("TryFromSliceError")
       ELSE /\ rdOut' = [ok |-> TRUE,
                         id |-> FromLeBytes(SubSeq(rdBytes, 1, U64Bytes))]
            /\ rdPc' = "returned"
    /\ UNCHANGED <<rdIn, rdBytes>>

\* let return_data: [u8; 8] = return_data.as_slice().try_into()?;
\* Ok(u64::from_le_bytes(return_data))
RdTryInto ==
    /\ rdPc = "try_into"
    /\ IF Len(rdBytes) # U64Bytes
       THEN RdFail("TryFromSliceError")
       ELSE /\ rdOut' = [ok |-> TRUE, id |-> FromLeBytes(rdBytes)]
            /\ rdPc' = "returned"
    /\ UNCHANGED <<rdIn, rdBytes>>

ReturnDataStep ==
    UNCHANGED <<serverVars, confirmVars, scoreVars, claimVars, initializeVars,
                registerVars>>

InitReturnData ==
    /\ InitServer
    /\ ConfirmAtRest
    /\ ScoreAtRest
    /\ ReturnDataReady(TransactionResponses)
    /\ ClaimReady({0})
    /\ InitializeReady
    /\ RegisterReady({NoValue})

NextReturnData ==
    \/ RdGetTransaction /\ ReturnDataStep
    \/ RdMeta /\ ReturnDataStep
    \/ RdReturnData /\ ReturnDataStep
    \/ RdDecode /\ ReturnDataStep
    \/ RdTryInto /\ ReturnDataStep

SpecReturnData == InitReturnData /\ [][NextReturnData]_vars

(***************************************************************************)
(* process_claim(), run by the chain one instruction after another.  The   *)
(* program works on the accounts of the transaction; the runtime keeps     *)
(* what it wrote only if the instruction returns Ok, and drops it when     *)
(* the instruction returns an error or panics.                             *)
(***************************************************************************)
\* What can be wrong with a claim instruction: its data, the number of its
\* accounts, one of the accounts the loaders look at, or the token claim
\* it invokes.
LoadFaults ==
    {"load_signer", "load_token_account", "load_member", "load_pool",
     "load_treasury", "load_treasury_tokens", "load_ore_program",
     "load_token_program"}
ClaimFaults ==
    {"none", "bad_data", "too_few_accounts", "too_many_accounts",
     "claim_failed"} \cup LoadFaults

ClaimInstructions == [amount : 0..(MaxBalance + 1), fault : ClaimFaults]

ClaimErr(err) ==
    /\ clResult' = [ok |-> FALSE, err |-> err]
    /\ clPc' = "exit"

\* The chain starts processing a claim instruction.
ClaimBegin(i) ==
    /\ clPc \in {"none", "done"}
    /\ clIx' = i
    /\ clPre' = [member |-> member_data, tokens |-> tokens]
    /\ clWork' = [member |-> member_data, tokens |-> tokens]
    /\ clResult' = NoValue
    /\ clInvoked' = FALSE
    /\ clPc' = "parse"
    /\ UNCHANGED <<member_data, tokens, credited>>

\* let args = ClaimArgs::try_from_bytes(data)?;
ClaimParseArgs ==
    /\ clPc = "parse"
    /\ IF clIx.fault = "bad_data"
       THEN ClaimErr("InvalidInstructionData")
       ELSE clPc' = "accounts" /\ UNCHANGED clResult
    /\ UNCHANGED <<member_data, tokens, credited, clIx, clPre, clWork, clInvoked>>

\* let [signer, .., token_program] = accounts else { return Err(..) };
ClaimAccounts ==
    /\ clPc = "accounts"
    /\ IF clIx.fault \in {"too_few_accounts", "too_many_accounts"}
       THEN ClaimErr("NotEnoughAccountKeys")
       ELSE clPc' = "load" /\ UNCHANGED clResult
    /\ UNCHANGED <<member_data, tokens, credited, clIx, clPre, clWork, clInvoked>>

\* The variant of ClaimLoad that does not look at the member account.
ClaimLoadSkipsMember ==
    /\ clPc = "load"
    /\ IF clIx.fault \in LoadFaults \ {"load_member"}
       THEN ClaimErr(clIx.fault)
       ELSE clPc' = "update" /\ UNCHANGED clResult
    /\ UNCHANGED <<member_data, tokens, credited, clIx, clPre, clWork, clInvoked>>

\* load_signer(signer)?; .. load_program(token_program, spl_token::id())?;
ClaimLoad ==
    /\ clPc = "load"
    /\ IF clIx.fault \in LoadFaults
       THEN ClaimErr(clIx.fault)
       ELSE clPc' = "update" /\ UNCHANGED clResult
    /\ UNCHANGED <<member_data, tokens, credited, clIx, clPre, clWork, clInvoked>>

\* The variant of ClaimUpdate that subtracts with saturating_sub.
ClaimUpdateSaturating ==
    /\ clPc = "update"
    /\ clWork' = [clWork EXCEPT !.member.balance =
                    IF clIx.amount > @ THEN 0 ELSE @ - clIx.amount]
    /\ clPc' = "invoke"
    /\ UNCHANGED <<member_data, tokens, credited, clIx, clPre, clResult, clInvoked>>

\* member.balance = member.balance.checked_sub(amount).unwrap();
ClaimUpdate ==
    /\ clPc = "update"
    /\ IF clIx.amount > clWork.member.balance
       THEN ClaimErr("panic") /\ UNCHANGED clWork
       ELSE /\ clWork' = [clWork EXCEPT !.member.balance = @ - clIx.amount]
            /\ clPc' = "invoke"
            /\ UNCHANGED clResult
    /\ UNCHANGED <<member_data, tokens, credited, clIx, clPre, clInvoked>>

\* invoke_signed(&ore_api::instruction::claim(pool, beneficiary, amount), ..)?;
\* Ok(())
ClaimInvoke ==
    /\ clPc = "invoke"
    /\ clInvoked' = TRUE
    /\ IF clIx.fault = "claim_failed"
       THEN ClaimErr("claim_failed") /\ UNCHANGED clWork
       ELSE /\ clWork' = [clWork EXCEPT !.tokens = @ + clIx.amount]
            /\ clResult' = [ok |-> TRUE, err |-> ""]
            /\ clPc' = "exit"
    /\ UNCHANGED <<member_data, tokens, credited, clIx, clPre>>

\* The instruction is over: its writes are kept on Ok and dropped otherwise.
ClaimExit ==
    /\ clPc = "exit"
    /\ IF clResult.ok
       THEN member_data' = clWork.member /\ tokens' = clWork.tokens
       ELSE UNCHANGED <<member_data, tokens>>
    /\ clPc' = "done"
    /\ UNCHANGED <<credited, clIx, clPre, clWork, clResult, clInvoked>>

ClaimStep ==
    UNCHANGED <<serverVars, confirmVars, scoreVars, returnDataVars,
                initializeVars, registerVars>>

InitClaim ==
    /\ InitServer
    /\ ConfirmAtRest
    /\ ScoreAtRest
    /\ ReturnDataReady({NoValue})
    /\ ClaimReady(0..MaxBalance)
    /\ InitializeReady
    /\ RegisterReady({NoValue})

NextClaim ==
    \/ \E i \in ClaimInstructions : ClaimBegin(i) /\ ClaimStep
    \/ ClaimParseArgs /\ ClaimStep
    \/ ClaimAccounts /\ ClaimStep
    \/ ClaimLoad /\ ClaimStep
    \/ ClaimUpdate /\ ClaimStep
    \/ ClaimInvoke /\ ClaimStep
    \/ ClaimExit /\ ClaimStep

SpecClaim == InitClaim /\ [][NextClaim]_vars

(***************************************************************************)
(* process_initialize(), run by the chain one instruction after another,   *)
(* with the same rule for what the instruction wrote.                      *)
(***************************************************************************)
\* What can be wrong with an initialize instruction besides its signer:
\* its data, the number of its accounts, an account the loaders look at,
\* the creation of the pool account or the opening of the proof account.
InitializeLoadFaults ==
    {"load_any", "pool_not_pda", "proof_not_pda", "load_ore_program",
     "load_token_program", "load_associated_token_program",
     "load_system_program", "load_sysvar"}
InitializeFaults ==
    {"none", "bad_data", "too_few_accounts", "too_many_accounts",
     "create_failed", "open_failed"} \cup InitializeLoadFaults

InitializeInstructions ==
    [signer : {"operator", "stranger"}, fault : InitializeFaults]

InitializeErr(err) ==
    /\ inResult' = [ok |-> FALSE, err |-> err]
    /\ inPc' = "exit"

\* The chain starts processing an initialize instruction.
InitializeBegin(i) ==
    /\ inPc \in {"none", "done"}
    /\ inIx' = i
    /\ inPre' = [pool |-> pool_data, proof |-> proof_data]
    /\ inWork' = [pool |-> pool_data, proof |-> proof_data]
    /\ inResult' = NoValue
    /\ inPc' = "parse"
    /\ UNCHANGED <<pool_data, proof_data, inits>>

\* let args = InitializeArgs::try_from_bytes(data)?;
InitializeParseArgs ==
    /\ inPc = "parse"
    /\ IF inIx.fault = "bad_data"
       THEN InitializeErr("InvalidInstructionData")
       ELSE inPc' = "accounts" /\ UNCHANGED inResult
    /\ UNCHANGED <<pool_data, proof_data, inIx, inPre, inWork, inits>>

\* let [signer, .., slot_hashes_sysvar] = accounts else { return Err(..) };
InitializeAccounts ==
    /\ inPc = "accounts"
    /\ IF inIx.fault \in {"too_few_accounts", "too_many_accounts"}
       THEN InitializeErr("NotEnoughAccountKeys")
       ELSE inPc' = "load" /\ UNCHANGED inResult
    /\ UNCHANGED <<pool_data, proof_data, inIx, inPre, inWork, inits>>

\* What the loads come to, in their order: load_operator, load_any, the
\* two load_uninitialized_pda (the address is the PDA and the account has
\* not been created), the programs and the sysvar.
InitializeLoadResult(checkUninitialized) ==
    IF inIx.signer # "operator" THEN "load_operator"
    ELSE IF inIx.fault = "load_any" THEN "load_any"
    ELSE IF inIx.fault = "pool_not_pda" THEN "pool_not_pda"
    ELSE IF checkUninitialized /\ inWork.pool.initialized THEN "pool_initialized"
    ELSE IF inIx.fault = "proof_not_pda" THEN "proof_not_pda"
    ELSE IF checkUninitialized /\ inWork.proof.initialized
    THEN "proof_initialized"
    ELSE IF inIx.fault \in InitializeLoadFaults THEN inIx.fault
    ELSE "ok"

\* The variant of InitializeLoad that takes the pool and proof accounts
\* whether or not they have been created.
InitializeLoadAnyAccount ==
    /\ inPc = "load"
    /\ IF InitializeLoadResult(FALSE) # "ok"
       THEN InitializeErr(InitializeLoadResult(FALSE))
       ELSE inPc' = "create" /\ UNCHANGED inResult
    /\ UNCHANGED <<pool_data, proof_data, inIx, inPre, inWork, inits>>

\* load_operator(signer)?; .. load_sysvar(slot_hashes_sysvar, ..)?;
InitializeLoad ==
    /\ inPc = "load"
    /\ IF InitializeLoadResult(TRUE) # "ok"
       THEN InitializeErr(InitializeLoadResult(TRUE))
       ELSE inPc' = "create" /\ UNCHANGED inResult
    /\ UNCHANGED <<pool_data, proof_data, inIx, inPre, inWork, inits>>

\* create_pda(pool_info, ..)?; pool_data[0] = Pool::discriminator() as u8;
InitializeCreatePool ==
    /\ inPc = "create"
    /\ IF inIx.fault = "create_failed"
       THEN InitializeErr("create_failed") /\ UNCHANGED inWork
       ELSE /\ inWork' = [inWork EXCEPT
                            !.pool = [initialized |-> TRUE,
                                      discriminator |-> "Pool"]]
            /\ inPc' = "open"
            /\ UNCHANGED inResult
    /\ UNCHANGED <<pool_data, proof_data, inIx, inPre, inits>>

\* invoke_signed(&ore_api::instruction::open(pool, miner, signer), ..)?;
\* Ok(())
InitializeOpenProof ==
    /\ inPc = "open"
    /\ IF inIx.fault = "open_failed"
       THEN InitializeErr("open_failed") /\ UNCHANGED inWork
       ELSE /\ inWork' = [inWork EXCEPT
                            !.proof = [initialized |-> TRUE,
                                       discriminator |-> "Proof"]]
            /\ inResult' = [ok |-> TRUE, err |-> ""]
            /\ inPc' = "exit"
    /\ UNCHANGED <<pool_data, proof_data, inIx, inPre, inits>>

\* The instruction is over: its writes are kept on Ok and dropped otherwise.
InitializeExit ==
    /\ inPc = "exit"
    /\ IF inResult.ok
       THEN /\ pool_data' = inWork.pool
            /\ proof_data' = inWork.proof
            /\ inits' = inits + 1
       ELSE UNCHANGED <<pool_data, proof_data, inits>>
    /\ inPc' = "done"
    /\ UNCHANGED <<inIx, inPre, inWork, inResult>>

InitializeStep ==
    UNCHANGED <<serverVars, confirmVars, scoreVars, returnDataVars, claimVars,
                registerVars>>

NextInitialize ==
    \/ \E i \in InitializeInstructions : InitializeBegin(i) /\ InitializeStep
    \/ InitializeParseArgs /\ InitializeStep
    \/ InitializeAccounts /\ InitializeStep
    \/ InitializeLoad /\ InitializeStep
    \/ InitializeCreatePool /\ InitializeStep
    \/ InitializeOpenProof /\ InitializeStep
    \/ InitializeExit /\ InitializeStep

SpecInitialize == Init /\ [][NextInitialize]_vars

\* confirm_transaction has returned.
CtReturned == ctPc \in {"ok", "err"}

(***************************************************************************)
(* register_new_member(): the open transaction is sent, confirmed by       *)
(* confirm_transaction, its return data decoded by register_return_data,   *)
(* and the member written to the MemberStore.                              *)
(***************************************************************************)
\* The call of register_new_member that can fail besides the confirmation
\* and the decoding.
RegisterFaults ==
    {"none", "get_latest_blockhash", "send_transaction", "db_client.get",
     "write_new_member"}

RegisterPayloads == [authority : {"A", "B"}, fault : RegisterFaults]

\* ore_pool_api::state::pool_pda(payer.pubkey())
PoolPda == "pool_pda(operator)"

\* The transactions register_new_member can be answered with when it
\* fetches the return data: the failures of TransactionResponses and
\* return data of 7, 8 and 9 bytes, sound or damaged.
RegisterRaw ==
    { [i \in 1..n |-> IF i = 1 THEN 7 ELSE 200] : n \in {7, 8, 9} }
RegisterResponses ==
    { r \in TransactionResponses : ~r.slot }
    \cup { TransactionResponse("ok", TRUE, TRUE, Base64Encode(raw), TRUE, raw) :
           raw \in RegisterRaw }
    \cup { TransactionResponse("ok", TRUE, TRUE, d, FALSE, <<>>) :
           d \in Damaged(Base64Encode([i \in 1..U64Bytes |-> 200])) }

RegisterFail(err) ==
    /\ rgOut' = [ok |-> FALSE, err |-> err]
    /\ rgPc' = "returned"

\* let hash = rpc_client.get_latest_blockhash().await?;
RegisterBlockhash ==
    /\ rgPc = "blockhash"
    /\ rgIn # NoValue
    /\ IF rgIn.fault = "get_latest_blockhash"
       THEN RegisterFail("get_latest_blockhash")
       ELSE rgPc' = "send" /\ UNCHANGED rgOut
    /\ UNCHANGED <<rgIn, rgTrace, store>>

\* let sig = rpc_client.send_transaction(&tx).await?;
RegisterSend ==
    /\ rgPc = "send"
    /\ IF rgIn.fault = "send_transaction"
       THEN RegisterFail("send_transaction") /\ UNCHANGED rgTrace
       ELSE /\ rgPc' = "confirm"
            /\ rgTrace' = Append(rgTrace, "sent")
            /\ UNCHANGED rgOut
    /\ UNCHANGED <<rgIn, store>>

\* The variant of RegisterConfirmed that drops the result of
\* confirm_transaction.
RegisterConfirmedUnchecked ==
    /\ rgPc = "confirm"
    /\ CtReturned
    /\ rgPc' = "return_data"
    /\ rgTrace' = Append(rgTrace, "confirmed")
    /\ UNCHANGED <<rgIn, rgOut, store>>

\* confirm_transaction(rpc_client, &sig).await?;
RegisterConfirmed ==
    /\ rgPc = "confirm"
    /\ CtReturned
    /\ IF ctPc = "err"
       THEN RegisterFail("could not confirm transaction") /\ UNCHANGED rgTrace
       ELSE /\ rgPc' = "return_data"
            /\ rgTrace' = Append(rgTrace, "confirmed")
            /\ UNCHANGED rgOut
    /\ UNCHANGED <<rgIn, store>>

\* let member_id = register_return_data(rpc_client, &sig).await?;
RegisterDecoded ==
    /\ rgPc = "return_data"
    /\ rdPc = "returned"
    /\ IF ~rdOut.ok
       THEN RegisterFail(rdOut.err) /\ UNCHANGED rgTrace
       ELSE /\ rgPc' = "db_get"
            /\ rgTrace' = Append(rgTrace, "decoded")
            /\ UNCHANGED rgOut
    /\ UNCHANGED <<rgIn, store>>

\* let db_client = db_client.get().await?;
RegisterDbGet ==
    /\ rgPc = "db_get"
    /\ IF rgIn.fault = "db_client.get"
       THEN RegisterFail("db_client.get")
       ELSE rgPc' = "write" /\ UNCHANGED rgOut
    /\ UNCHANGED <<rgIn, rgTrace, store>>

\* database::write_new_member(&db_client, &member, false).await?; Ok(())
RegisterWrite ==
    /\ rgPc = "write"
    /\ IF rgIn.fault = "write_new_member"
       THEN RegisterFail("write_new_member") /\ UNCHANGED <<rgTrace, store>>
       ELSE /\ store' = store \cup
                  {[id |-> rdOut.id, pool |-> PoolPda,
                    authority |-> rgIn.authority,
                    balance |-> 0, total_balance |-> 0]}
            /\ rgTrace' = Append(rgTrace, "written")
            /\ rgOut' = [ok |-> TRUE, err |-> ""]
            /\ rgPc' = "returned"
    /\ UNCHANGED rgIn

RegisterStep ==
    UNCHANGED <<serverVars, confirmVars, scoreVars, returnDataVars, claimVars,
                initializeVars>>

InitRegister ==
    /\ InitServer
    /\ ConfirmAtRest
    /\ ScoreAtRest
    /\ ReturnDataReady(RegisterResponses)
    /\ ClaimReady({0})
    /\ InitializeReady
    /\ RegisterReady(RegisterPayloads)

NextRegister ==
    \/ RegisterBlockhash /\ RegisterStep
    \/ RegisterSend /\ RegisterStep
    \/ rgPc = "confirm" /\ CtLoop
    \/ rgPc = "confirm" /\ CtCheck
    \/ rgPc = "confirm" /\ CtSleep
    \/ rgPc = "confirm" /\ CtReturn
    \/ RegisterConfirmed /\ RegisterStep
    \/ rgPc = "return_data" /\ RdGetTransaction /\ ReturnDataStep
    \/ rgPc = "return_data" /\ RdMeta /\ ReturnDataStep
    \/ rgPc = "return_data" /\ RdReturnData /\ ReturnDataStep
    \/ rgPc = "return_data" /\ RdDecode /\ ReturnDataStep
    \/ rgPc = "return_data" /\ RdTryInto /\ ReturnDataStep
    \/ RegisterDecoded /\ RegisterStep
    \/ RegisterDbGet /\ RegisterStep
    \/ RegisterWrite /\ RegisterStep

SpecRegister == InitRegister /\ [][NextRegister]_vars

(***************************************************************************)
(* Properties.                                                             *)
(***************************************************************************)
\* Handler h has built the response of a contribute() request.
ContributeResponded(h) ==
    pc[h] = "responded" /\ req[h].kind = "contribute"

\* Handler h has built the response of a challenge() request.
ChallengeResponded(h) ==
    pc[h] = "responded" /\ req[h].kind = "challenge"

\* C1: a contribution validated against the challenge of one round is never
\* recorded or scored in a later round: every contribution the live round
\* holds carries a solution that is valid for the live challenge.
C1_NoStaleContributionRecorded ==
    \A i \in 1..Len(agg.contributions) :
        IsValidDigest(agg.challenge.challenge, agg.contributions[i].solution)

HandedOut ==
    Issued(agg.alloc)
        \cup { resp[h].range :
                 h \in { x \in Handlers :
                           ChallengeResponded(x) /\ resp[x].status = 200 } }

\* C3: the nonce ranges handed out to different members in one round are
\* pairwise disjoint.
C3_RangesDisjoint ==
    \A r1 \in HandedOut : \A r2 \in HandedOut :
        r1.member_id # r2.member_id => ~Overlap(r1, r2)

C3_Witness ==
    /\ agg.round_id = MaxRound
    /\ agg.alloc["A"] # NoValue
    /\ \E h \in Handlers :
         /\ ChallengeResponded(h)
         /\ req[h].authority = "B"
         /\ resp[h].status = 200
         /\ local[h].found = NoValue

\* C4: a member that asks again within a round is answered with the range
\* the table holds for it, and the request changes neither the table nor
\* the cursor; a range once in the table is not changed within the round.
C4_AllocateIdempotent ==
    [][ /\ \A h \in Handlers :
            ( /\ pc[h] = "nonce_assign"
              /\ pc'[h] = "challenge_match"
              /\ req[h].authority \in Members
              /\ agg.alloc[req[h].authority] # NoValue )
            => /\ agg' = agg
               /\ local'[h].result =
                    [ok |-> TRUE, range |-> agg.alloc[req[h].authority]]
        /\ \A m \in Members :
            (agg.alloc[m] # NoValue /\ agg'.round_id = agg.round_id)
            => agg'.alloc[m] = agg.alloc[m] ]_vars

C4_Witness ==
    \E h \in Handlers :
        /\ ChallengeResponded(h)
        /\ resp[h].status = 200
        /\ local[h].found # NoValue
        /\ resp[h].range = local[h].found
        /\ \E m \in Members :
             /\ agg.alloc[m] # NoValue
             /\ agg.alloc[m].start > local[h].found.start

\* C5: a contribute() request that is rejected (401 or 400) has sent
\* no Contribution on the channel, and the Aggregator's round state
\* (challenge, allocations, contributions, totals) is what it was when the
\* request began.
C5_RejectHasNoEffect ==
    \A h \in Handlers :
        (ContributeResponded(h) /\ resp[h].status \in {400, 401})
        => /\ sent[h] = <<>>
           /\ agg = before[h].agg

C5_Witness ==
    \E h \in Handlers :
        /\ ContributeResponded(h)
        /\ resp[h].err = "InvalidDigest"
        /\ Len(agg.contributions) > 0

\* What a contribute() request finds when it looks at its payload.
SignatureOk(h) ==
    Verify(req[h].payload.signature, req[h].payload.authority,
           req[h].payload.solution)
DifficultyOk(h) ==
    Difficulty(req[h].payload.solution) >= agg.challenge.min_difficulty
DigestOk(h) ==
    IsValidDigest(agg.challenge.challenge, req[h].payload.solution)

\* C6: the checks are applied in the order signature, minimum difficulty,
\* digest, and the first that fails is the one reported: a bad signature is
\* answered 401 Unauthorized whatever the difficulty and the digest; a good
\* signature with a difficulty below the minimum 400 BelowMinDifficulty
\* whatever the digest; a good signature and difficulty with an invalid
\* digest 400 InvalidDigest.
C6_FirstFailingCheckReported ==
    \A h \in Handlers :
        ContributeResponded(h) =>
            /\ ~SignatureOk(h)
                 => resp[h] = [status |-> 401, err |-> "Unauthorized"]
            /\ (SignatureOk(h) /\ ~DifficultyOk(h))
                 => resp[h] = [status |-> 400, err |-> "BelowMinDifficulty"]
            /\ (SignatureOk(h) /\ DifficultyOk(h) /\ ~DigestOk(h))
                 => resp[h] = [status |-> 400, err |-> "InvalidDigest"]

C6_Witness ==
    \E h \in Handlers :
        /\ ContributeResponded(h)
        /\ ~SignatureOk(h) /\ ~DifficultyOk(h) /\ ~DigestOk(h)
        /\ resp[h].status = 401

\* The u64 whose value is 2^d: the one with bit d set and no other, which
\* exists for d < 64 only.
IsTwoToThe(x, d) ==
    /\ d < 8 * U64Bytes
    /\ x = [k \in 1..U64Bytes |->
              IF k = (d \div 8) + 1 THEN 2 ^ (d % 8) ELSE 0]

\* C7: a payload with a valid signature, a difficulty at or above the
\* minimum and a valid digest is answered 200, and the request has sent
\* exactly one Contribution, with member = payload.authority, the
\* payload's solution and score = 2^difficulty.
C7_ValidPayloadAccepted ==
    \A h \in Handlers :
        (ContributeResponded(h) /\ SignatureOk(h) /\ DifficultyOk(h)
            /\ DigestOk(h))
        => /\ resp[h].status = 200
           /\ Len(sent[h]) = 1
           /\ sent[h][1].member = req[h].payload.authority
           /\ sent[h][1].solution = req[h].payload.solution
           /\ IsTwoToThe(sent[h][1].score, Difficulty(req[h].payload.solution))

\* C8: for every difficulty 0..256 the score computation does not abort
\* and yields exactly 2^difficulty, a value above the score of the
\* difficulty one below.
C8_ScoreExactAndIncreasing ==
    scoreOut # NoValue =>
        /\ ~scoreOut.panicked
        /\ IsTwoToThe(scoreOut.score, scoreIn)
        /\ scoreIn > 0
             => LtU64(PowU64(U64Of(2), scoreIn - 1).value, scoreOut.score)


\* C9: confirm_transaction returns success exactly when one of at most 5
\* checks reported confirmed, that check being the last it made, and the
\* terminal failure exactly when 5 checks were made and all failed; an RPC
\* error and an unconfirmed answer are both failed checks.
C9_ConfirmResult ==
    CtReturned =>
        /\ Checks <= max_retries
        /\ ctPc = "ok" <=>
             /\ Confirmed
             /\ \A i \in 1..(Checks - 1) : answers[i] # "confirmed"
        /\ ctPc = "err" <=>
             /\ Checks = max_retries
             /\ \A i \in 1..Checks : answers[i] # "confirmed"

C9_Witness ==
    /\ ctPc = "ok"
    /\ answers = <<"rpc_error", "not_confirmed", "rpc_error",
                   "not_confirmed", "confirmed">>

\* C10: confirm_transaction makes at most 5 checks, makes no check after
\* one that reported confirmed, and eventually returns.
C10_ConfirmTerminates ==
    /\ [](/\ Checks <= max_retries
          /\ \A i \in 1..(Checks - 1) : answers[i] # "confirmed")
    /\ <>CtReturned

C10_Witness ==
    /\ ctPc = "err"
    /\ Checks = max_retries
    /\ retries = max_retries

\* C11: register_return_data yields a member id only when the transaction
\* has metadata and a return-data slot whose base64 text decodes to exactly
\* 8 bytes, and the id is those bytes read as a little-endian u64; an RPC
\* error, absent metadata, an absent slot, malformed base64 and a payload
\* shorter or longer than 8 bytes all give an error and no id.
C11_ReturnDataDecoded ==
    rdPc = "returned" =>
        /\ rdOut.ok <=> /\ rdIn.rpc = "ok"
                        /\ rdIn.meta
                        /\ rdIn.slot
                        /\ Base64Decode(rdIn.data).ok
                        /\ Len(Base64Decode(rdIn.data).bytes) = U64Bytes
        /\ rdOut.ok => /\ rdIn.wellFormed
                       /\ Len(rdIn.raw) = U64Bytes
                       /\ \A i \in 1..U64Bytes : rdOut.id[i] = rdIn.raw[i]
        /\ ~rdOut.ok => "id" \notin DOMAIN rdOut

C11_Witness ==
    /\ rdPc = "returned"
    /\ rdOut.ok
    /\ rdOut.id[1] = 7
    /\ rdOut.id[U64Bytes] = 200

C13_ChecksAndSendUnderOneLock ==
    /\ [](\A h \in Handlers :
            (pc[h] \in ContributePositions
             \/ (ContributeResponded(h) /\ resp[h].status = 200))
            => /\ lockOwner = h
               /\ agg.challenge = before[h].agg.challenge)
    /\ [][\A h \in Handlers :
            pc[h] \in ContributePositions
            => /\ agg' = agg
               /\ lockOwner' = h
               /\ \A g \in Handlers \ {h} : pc[g] = "idle" /\ pc'[g] = "idle"]_vars

C13_Witness ==
    \E h \in Handlers :
        /\ ContributeResponded(h)
        /\ resp[h].status = 200
        /\ sent[h] # <<>>
        /\ lockOwner = h
        /\ agg.round_id > 1

\* The claim instruction is over.
ClaimDone == clPc = "done"

\* C14: a member's balance never underflows.  A claim of amount a on
\* balance b that succeeds had a <= b and leaves balance b - a with a
\* tokens claimed to the beneficiary; a claim with a > b fails and leaves
\* the balance and the beneficiary's tokens as they were; the tokens
\* claimed never exceed the balance credited.
C14_BalanceNeverUnderflows ==
    /\ member_data.balance \in 0..credited
    /\ tokens + member_data.balance = credited
    /\ ClaimDone =>
         /\ clResult.ok =>
              /\ clIx.amount <= clPre.member.balance
              /\ member_data.balance = clPre.member.balance - clIx.amount
              /\ tokens = clPre.tokens + clIx.amount
         /\ clIx.amount > clPre.member.balance =>
              /\ ~clResult.ok
              /\ member_data = clPre.member
              /\ tokens = clPre.tokens

\* A claim beyond the balance has failed after an earlier claim succeeded.
C14_Witness ==
    /\ ClaimDone
    /\ clIx.fault = "none"
    /\ clIx.amount > clPre.member.balance
    /\ clResult.err = "panic"
    /\ tokens > 0
    /\ member_data.balance > 0

\* C15: process_claim validates before it mutates.  When the instruction
\* data, the number of accounts (other than 9) or an account load fails,
\* the instruction returns the error having written nothing to the member
\* account and without invoking the token claim, and the member account on
\* chain is unchanged; a claim that succeeds changes the balance of the
\* member account and none of its other fields.
C15_ValidateBeforeMutate ==
    ClaimDone =>
        /\ clIx.fault \in ClaimFaults \ {"none", "claim_failed"} =>
             /\ ~clResult.ok
             /\ clResult.err = (IF clIx.fault = "bad_data"
                                THEN "InvalidInstructionData"
                                ELSE IF clIx.fault \in LoadFaults
                                THEN clIx.fault
                                ELSE "NotEnoughAccountKeys")
             /\ clWork.member = clPre.member
             /\ ~clInvoked
             /\ member_data = clPre.member
             /\ tokens = clPre.tokens
        /\ clResult.ok =>
             /\ clIx.fault = "none"
             /\ clInvoked
             /\ member_data =
                  [clPre.member EXCEPT !.balance = member_data.balance]

C15_Witness ==
    /\ ClaimDone
    /\ clIx.fault = "load_member"
    /\ clIx.amount > 0
    /\ clIx.amount <= member_data.balance
    /\ tokens > 0

\* The initialize instruction is over.
InitializeDone == inPc = "done"

\* C16: the pool is initialized at most once.  An initialize succeeds only
\* when its signer is the operator and the pool and proof accounts are
\* uninitialized PDAs; the pool account is created only after every
\* validation has passed, and an instruction that fails a validation has
\* written nothing; once an initialize has succeeded every later one fails
\* and leaves the pool account as it is.
C16_InitializeOnce ==
    /\ inits <= 1
    /\ inits = 1 <=> pool_data.initialized
    /\ inPc \in {"create", "open"} =>
         /\ inIx.signer = "operator"
         /\ inIx.fault \notin InitializeLoadFaults
                              \cup {"bad_data", "too_few_accounts",
                                    "too_many_accounts"}
         /\ ~inPre.pool.initialized
         /\ ~inPre.proof.initialized
    /\ (inResult # NoValue /\ ~inResult.ok
        /\ inResult.err \notin {"create_failed", "open_failed"}) =>
         inWork = inPre
    /\ InitializeDone =>
         /\ inResult.ok =>
              /\ inIx = [signer |-> "operator", fault |-> "none"]
              /\ ~inPre.pool.initialized
              /\ ~inPre.proof.initialized
              /\ pool_data.initialized
         /\ inPre.pool.initialized =>
              /\ ~inResult.ok
              /\ pool_data = inPre.pool
              /\ proof_data = inPre.proof

\* An initialize with nothing wrong but the pool existing has failed.
C16_Witness ==
    /\ InitializeDone
    /\ inIx = [signer |-> "operator", fault |-> "none"]
    /\ inPre.pool.initialized
    /\ inResult.err = "pool_initialized"
    /\ inits = 1

\* What register_new_member completes, in the order it completes it.
RegisterOrder == <<"sent", "confirmed", "decoded", "written">>

\* C17: register_new_member writes a member to the MemberStore only after
\* the open transaction has been sent, confirmed by confirm_transaction
\* and its return data decoded into a member id, in that order; when
\* sending, confirmation (5 failed checks) or decoding fails, nothing is
\* written; the record written has the decoded id, the pool PDA, the
\* payload's authority, balance 0 and total_balance 0.
C17_WriteAfterSendConfirmDecode ==
    /\ rgTrace = SubSeq(RegisterOrder, 1, Len(rgTrace))
    /\ store # {} =>
         /\ rgTrace = RegisterOrder
         /\ ctPc = "ok"
         /\ rdPc = "returned" /\ rdOut.ok
         /\ store = {[id |-> FromLeBytes(Base64Decode(rdIn.data).bytes),
                      pool |-> PoolPda,
                      authority |-> rgIn.authority,
                      balance |-> 0, total_balance |-> 0]}
    /\ ctPc = "err" => retries = max_retries /\ Checks = max_retries
    /\ (rgPc = "returned"
        /\ \/ rgIn.fault \in {"get_latest_blockhash", "send_transaction"}
           \/ ctPc = "err"
           \/ (rdPc = "returned" /\ ~rdOut.ok)) =>
         /\ store = {}
         /\ ~rgOut.ok

\* A member has been written after the 5th check confirmed.
C17_Witness ==
    /\ rgPc = "returned"
    /\ rgOut.ok
    /\ Checks = max_retries
    /\ \E m \in store : m.authority = "B" /\ m.id[1] = 7

\* C18: the backoff sleep happens only between consecutive checks: a run
\* of confirm_transaction that made k checks has slept k-1 times, so the
\* terminal failure after the 5th failed check comes without a further
\* sleep.
C18_SleepsOnlyBetweenChecks ==
    CtReturned => sleeps = Checks - 1

====
